---- MODULE Spec2Model ----
(***************************************************************************)
(* Retrieval pipeline of the document assistant: QueryProcessor            *)
(* (DB/app/query_processor.py), Synthesizer (DB/app/services/              *)
(* synthesizer.py), VectorStore (DB_WIP/app/database/vector_store.py) and  *)
(* the ingestion step prepare_record (DB_1/app/insert_vectors.py).         *)
(*                                                                         *)
(* Python's Optional[T] is a sequence of length at most one: None is <<>>  *)
(* and a present value v is <<v>>.  A text is a sequence of tokens; the    *)
(* token "\n" is a newline and " " a blank.                                *)
(***************************************************************************)
EXTENDS Integers, Sequences, FiniteSets, TLC

VARIABLES
    store,                    \* the table behind vec_client: id -> Optional[record]
    clock,                    \* datetime.now(): the wall clock
    last_preprocessed_query,  \* QueryProcessor.last_preprocessed_query
    pc,                       \* position of the process_query call
    user_question,            \* argument of the call
    preprocessed,             \* local `preprocessed`
    predicates,               \* local `predicates`
    time_range,               \* local `time_range`
    search_args,              \* kwargs VectorStore.search handed to vec_client.search
    search_results,           \* local `search_results` (a DataFrame)
    response,                 \* local `response`
    result,                   \* the dict returned to the caller
    error,                    \* the exception that left process_query
    stages,                   \* stages completed by the call, in order
    calls,                    \* requests the call has sent to each external service
    index,                    \* whether the StreamingDiskANN index of the table exists
    admin,                    \* the last maintenance call on the VectorStore and its outcome
    rejected,                 \* fields of the extraction answer the schema refused in this call
    extraction_request,       \* messages the call sent to the extraction service
    parked                    \* the locals of a second process_query call while it is not running

vars == <<store, clock, last_preprocessed_query, pc, user_question, preprocessed,
          predicates, time_range, search_args, search_results, response, result,
          error, stages, calls, index, admin, rejected, extraction_request, parked>>

\* what the maintenance operations of the VectorStore leave alone
callVars == <<clock, last_preprocessed_query, pc, user_question, preprocessed,
              predicates, time_range, search_args, search_results, response, result,
              error, stages, calls, rejected, extraction_request, parked>>

\* what a process_query call and the ingestion script leave alone
adminVars == <<index, admin>>

----------------------------------------------------------------------------
(* Bounds of the model *)

MaxRecords == 4      \* documents the ingestion script stores
MaxLimit == 4        \* largest `limit` a search is asked for
MaxScriptIds == 3    \* ids a maintenance script writes, deletes and looks up

----------------------------------------------------------------------------
(* Optional values and Python truthiness *)

None == <<>>

Some(v) == <<v>>

\* `if x:` for an Optional[str]
TruthyStr(x) == x # None /\ x[1] # ""

\* `if x:` for an Optional object without __bool__/__len__ (a pydantic model,
\* a Predicates object) and for an Optional tuple of two elements
TruthyObj(x) == x # None

----------------------------------------------------------------------------
(* services/synthesizer.py: the schemas *)

Senders == {"Employment Agency", "Tax", "Health", "Immigration", "Other"}

Recipients == {"Artur Grygorian", "Nune Grygorian"}

\* TimeFilter values the extraction grounds a question's time window to:
\* no bound, one bound, a proper window and a reversed one
TimeFilter ==
    {[start_date |-> None, end_date |-> None],
     [start_date |-> Some(2), end_date |-> None],
     [start_date |-> None, end_date |-> Some(3)],
     [start_date |-> Some(2), end_date |-> Some(3)],
     [start_date |-> Some(3), end_date |-> Some(2)]}

\* the senders the extraction finds in the questions asked
ExtractedSenders == {"Tax", "Health"}

\* validated results of the preprocessing extraction for question q
UserQuestionPreprocessing(q) ==
    [question : {q},
     sender : {None} \cup {Some(s) : s \in Senders \cap ExtractedSenders},
     addressed_to : {None} \cup {Some(r) : r \in Recipients},
     time_filter : {None} \cup {Some(tf) : tf \in TimeFilter}]

\* what the extraction service answers for `sender` and `addressed_to` before
\* the answer is validated: the values above and, for the question about tax
\* documents, a sender outside the enumeration, for the other question a
\* recipient outside the enumeration
AnsweredSenders(q) ==
    ExtractedSenders \cup (IF q[1] = "tax" THEN {"Tax Office"} ELSE {})

AnsweredRecipients(q) ==
    Recipients \cup (IF q[1] = "tax" THEN {} ELSE {"Artur"})

\* the answers of the extraction service for question q, before validation
ExtractionAnswers(q) ==
    [question : {q},
     sender : {None} \cup {Some(s) : s \in AnsweredSenders(q)},
     addressed_to : {None} \cup {Some(r) : r \in AnsweredRecipients(q)},
     time_filter : {None} \cup {Some(tf) : tf \in TimeFilter}]

\* a schema that accepts any string for `sender` and `addressed_to`
RefusedFields_none(answer) == {}

\* the Literal fields of UserQuestionPreprocessing that refuse the answer
RefusedFields(answer) ==
    {f \in {"sender"} : answer.sender # None /\ answer.sender[1] \notin Senders}
        \cup {f \in {"addressed_to"} :
                 answer.addressed_to # None /\ answer.addressed_to[1] \notin Recipients}

\* llm.create_completion(response_model=UserQuestionPreprocessing, ...) on an
\* answer of the service: the validated object, or the error of a schema
\* violation with the fields it names
create_completion(answer) ==
    IF RefusedFields(answer) = {}
    THEN [error |-> None, value |-> Some(answer), refused |-> {}]
    ELSE [error |-> Some("ExtractionError"), value |-> None,
          refused |-> RefusedFields(answer)]

\* the request failing before the service answers
RequestFailed == [error |-> Some("ExtractionError"), value |-> None, refused |-> {}]

\* the outcomes of query_processor.py:65-74 for question q
Extractions(q) ==
    {create_completion(answer) : answer \in ExtractionAnswers(q)} \cup {RequestFailed}

SynthesizedResponse ==
    [thought_process : {<<"looked at the retrieved information">>},
     answer : {"answer"},
     enough_context : BOOLEAN]

----------------------------------------------------------------------------
(* timescale_vector client.Predicates as the code builds them *)

Leaf(field, op, value) == [kind |-> "leaf", field |-> field, op |-> op, value |-> value]

\* p | q
Or(p, q) == [kind |-> "OR", left |-> p, right |-> q]

\* p & q
And(p, q) == [kind |-> "AND", left |-> p, right |-> q]

RECURSIVE Eval(_, _)
\* does a record with metadata m satisfy predicate p
Eval(p, m) ==
    CASE p.kind = "leaf" ->
            /\ p.field \in DOMAIN m
            /\ p.op = "=="
            /\ m[p.field] = p.value
      [] p.kind = "OR" -> Eval(p.left, m) \/ Eval(p.right, m)
      [] p.kind = "AND" -> Eval(p.left, m) /\ Eval(p.right, m)

RECURSIVE Leaves(_)
Leaves(p) == IF p.kind = "leaf" THEN {p} ELSE Leaves(p.left) \cup Leaves(p.right)

\* query_processor.py:83-86
SenderLeaf(pre) ==
    IF TruthyStr(pre.sender) THEN <<Leaf("category", "==", pre.sender[1])>> ELSE <<>>

\* query_processor.py:89-92
AddressedToLeaf(pre) ==
    IF TruthyStr(pre.addressed_to)
    THEN <<Leaf("addressed_to", "==", pre.addressed_to[1])>>
    ELSE <<>>

RECURSIVE CombineOr(_, _)
\* query_processor.py:95-100: the loop over predicates_list
CombineOr(final_predicate, predicates_list) ==
    IF predicates_list = <<>> THEN final_predicate
    ELSE CombineOr(IF final_predicate = None
                   THEN Some(Head(predicates_list))
                   ELSE Some(Or(final_predicate[1], Head(predicates_list))),
                   Tail(predicates_list))

RECURSIVE CombineAnd(_, _)
CombineAnd(final_predicate, predicates_list) ==
    IF predicates_list = <<>> THEN final_predicate
    ELSE CombineAnd(IF final_predicate = None
                    THEN Some(Head(predicates_list))
                    ELSE Some(And(final_predicate[1], Head(predicates_list))),
                    Tail(predicates_list))

\* the builder combining its leaves with & instead of |
build_predicates_with_and(pre) == CombineAnd(None, SenderLeaf(pre) \o AddressedToLeaf(pre))

\* the builder seeding final_predicate with the first leaf and then OR-ing
\* every leaf of the list, the first one again included
build_predicates_first_twice(pre) ==
    IF SenderLeaf(pre) \o AddressedToLeaf(pre) = <<>> THEN None
    ELSE CombineOr(Some(Head(SenderLeaf(pre) \o AddressedToLeaf(pre))),
                   SenderLeaf(pre) \o AddressedToLeaf(pre))

\* the builder without the `if preprocessed.sender:` guard
build_predicates_unguarded(pre) ==
    CombineOr(None,
              <<Leaf("category", "==", IF pre.sender = None THEN "None" ELSE pre.sender[1])>>
                  \o AddressedToLeaf(pre))

\* QueryProcessor._build_predicates
_build_predicates(pre) == CombineOr(None, SenderLeaf(pre) \o AddressedToLeaf(pre))

----------------------------------------------------------------------------
(* Texts, the embedding provider and the ingestion step *)

\* str.replace("\n", " ") on a text
RECURSIVE ReplaceNewlines(_)
ReplaceNewlines(text) ==
    IF text = <<>> THEN <<>>
    ELSE <<IF Head(text) = "\n" THEN " " ELSE Head(text)>> \o ReplaceNewlines(Tail(text))

\* weight of a token in the embedding model
TokenCode(tok) ==
    CASE tok = "\n" -> 5
      [] tok = " " -> 0
      [] tok \in {"Sender: ", "Addressed to: ", "Required Action: "} -> 1
      [] tok \in {"Tax", "tax"} -> 10
      [] tok \in {"Health", "insurance"} -> 20
      [] tok = "Artur Grygorian" -> 3
      [] tok = "Nune Grygorian" -> 4
      [] tok = "bill" -> 2
      [] tok = "pay" -> 1
      [] OTHER -> 0

RECURSIVE EmbeddingModel(_)
\* openai_client.embeddings.create(input=[text]): a deterministic function of
\* the text it is given; the vector is one integer coordinate
EmbeddingModel(text) ==
    IF text = <<>> THEN 0 ELSE TokenCode(Head(text)) + EmbeddingModel(Tail(text))

\* VectorStore.get_embedding
get_embedding(text) == EmbeddingModel(ReplaceNewlines(text))

\* the `<=>` distance of the store between two embeddings
Distance(a, b) == IF a >= b THEN a - b ELSE b - a

\* uuid_from_time(t): an id that embeds its creation time
uuid_from_time(t) == <<"uuid", t>>

\* str(uuid), and the store reading the text back as a uuid
str_of_uuid(u) == <<"str", u[2]>>

uuid_of_str(s) == <<"uuid", s[2]>>

\* the creation time embedded in a uuid
TimeOfId(id) == id[2]

\* the analysed documents (resp.json) the ingestion script is run on
Documents ==
    { [title_in_original_language |-> "Steuerbescheid",
       title_in_english |-> "Tax assessment",
       sender |-> "Tax",
       sent_date |-> 3,
       addressed_to |-> "Artur Grygorian",
       content_in_original_language |-> "Steuer",
       content_in_english |-> <<"tax", "\n", "bill">>,
       summary_in_english |-> "a tax bill",
       required_actions |-> <<"pay">>],
      [title_in_original_language |-> "Versicherung",
       title_in_english |-> "Insurance letter",
       sender |-> "Health",
       sent_date |-> 1,
       addressed_to |-> "Nune Grygorian",
       content_in_original_language |-> "Versicherung",
       content_in_english |-> <<"insurance">>,
       summary_in_english |-> "an insurance letter",
       required_actions |-> <<>>] }

RECURSIVE RequiredActionLines(_)
\* insert_vectors.py:29-31
RequiredActionLines(actions) ==
    IF actions = <<>> THEN <<>>
    ELSE <<"\n", "Required Action: ", Head(actions)>> \o RequiredActionLines(Tail(actions))

\* insert_vectors.py:28-31
content_for_embedding(row) ==
    <<"Sender: ", row.sender, "\n", "Addressed to: ", row.addressed_to, "\n">>
        \o row.content_in_english \o RequiredActionLines(row.required_actions)

\* insert_vectors.py:36-45
MetadataOf(row) ==
    [title_in_original_language |-> row.title_in_original_language,
     title_in_english |-> row.title_in_english,
     sender |-> row.sender,
     sent_date |-> row.sent_date,
     addressed_to |-> row.addressed_to,
     content_in_original_language |-> row.content_in_original_language,
     summary_in_english |-> row.summary_in_english,
     required_actions |-> row.required_actions]

\* prepare_record embedding the body of the letter alone while it stores the
\* text with the sender, recipient and action lines
prepare_record_embedding_body(row, now) ==
    [id |-> str_of_uuid(uuid_from_time(now)),
     metadata |-> MetadataOf(row),
     contents |-> content_for_embedding(row),
     embedding |-> get_embedding(row.content_in_english)]

\* insert_vectors.py:25-52, run at time `now`
prepare_record(row, now) ==
    [id |-> str_of_uuid(uuid_from_time(now)),
     metadata |-> MetadataOf(row),
     contents |-> content_for_embedding(row),
     embedding |-> get_embedding(content_for_embedding(row))]

----------------------------------------------------------------------------
(* The table behind vec_client *)

Ids == {uuid_from_time(t) : t \in 1..MaxRecords}

EmptyStore == [id \in Ids |-> None]

Stored(st) == {st[id][1] : id \in {i \in Ids : st[i] # None}}

\* the row the table keeps for a record of the DataFrame: its id read as a uuid
RowOf(rec) == [rec EXCEPT !.id = uuid_of_str(rec.id)]

\* What the INSERT statement of vec_client.upsert does with a row whose id is
\* in the table already.  The statement belongs to the client library:
\* VectorStore.upsert passes the rows on and does nothing else, so both
\* behaviours of an INSERT ... ON CONFLICT are admitted, overwriting the
\* stored row (DO UPDATE) and leaving it as it is (DO NOTHING).
OnConflict == {"update", "nothing"}

RECURSIVE vec_client_upsert(_, _, _)
\* vec_client.upsert(records) under one conflict behaviour; id is the primary
\* key of the table, which holds one row per id
vec_client_upsert(st, records, on_conflict) ==
    IF records = <<>> THEN st
    ELSE vec_client_upsert(
             IF st[RowOf(Head(records)).id] # None /\ on_conflict = "nothing"
             THEN st
             ELSE [st EXCEPT ![RowOf(Head(records)).id] = Some(RowOf(Head(records)))],
             Tail(records), on_conflict)

\* VectorStore.upsert(df): the tables it can leave
upsert(st, records) == {vec_client_upsert(st, records, c) : c \in OnConflict}

\* VectorStore.drop_tables followed by create_tables
drop_tables(st) == EmptyStore

\* `if ids` of delete: None and the empty list are false
TruthyList(x) == x # None /\ Len(x[1]) > 0

\* `if metadata_filter` of delete: None and the empty dict are false.  A dict
\* of filters is a set of <<key, value>> pairs.
TruthyDict(x) == x # None /\ x[1] # {}

\* vec_client.delete_all()
vec_client_delete_all(st) == EmptyStore

\* vec_client.delete_by_ids(ids): DELETE ... WHERE id = ANY(ids)
delete_by_ids(st, ids) ==
    [id \in Ids |-> IF \E i \in 1..Len(ids) : uuid_of_str(ids[i]) = id THEN None ELSE st[id]]

\* vec_client.delete_by_metadata(filter): DELETE ... WHERE metadata @> filter
delete_by_metadata(st, filter) ==
    [id \in Ids |->
        IF /\ st[id] # None
           /\ \A kv \in filter : /\ kv[1] \in DOMAIN st[id][1].metadata
                                 /\ st[id][1].metadata[kv[1]] = kv[2]
        THEN None ELSE st[id]]

\* the guard of delete counting every argument that is not None, and
\* delete_all when it is true
CriteriaGiven_not_none(ids, metadata_filter, delete_all) ==
    (IF ids # None THEN 1 ELSE 0) + (IF metadata_filter # None THEN 1 ELSE 0)
        + (IF delete_all THEN 1 ELSE 0)

\* vector_store.py:217: sum(bool(x) for x in (ids, metadata_filter, delete_all))
CriteriaGiven(ids, metadata_filter, delete_all) ==
    (IF TruthyList(ids) THEN 1 ELSE 0) + (IF TruthyDict(metadata_filter) THEN 1 ELSE 0)
        + (IF delete_all THEN 1 ELSE 0)

\* delete handing a list of ids to delete_all
delete_ids_by_delete_all(st, ids, metadata_filter, delete_all) ==
    IF CriteriaGiven(ids, metadata_filter, delete_all) # 1
    THEN [error |-> Some("ValueError"), store |-> st, issued |-> <<>>]
    ELSE IF delete_all \/ TruthyList(ids)
         THEN [error |-> None, store |-> vec_client_delete_all(st),
               issued |-> <<"delete_all">>]
         ELSE [error |-> None, store |-> delete_by_metadata(st, metadata_filter[1]),
               issued |-> <<"delete_by_metadata">>]

\* VectorStore.delete(ids, metadata_filter, delete_all): the exception it
\* raises, if any, the table it leaves and the calls it issued to vec_client
delete(st, ids, metadata_filter, delete_all) ==
    IF CriteriaGiven(ids, metadata_filter, delete_all) # 1
    THEN [error |-> Some("ValueError"), store |-> st, issued |-> <<>>]
    ELSE IF delete_all
         THEN [error |-> None, store |-> vec_client_delete_all(st),
               issued |-> <<"delete_all">>]
         ELSE IF TruthyList(ids)
              THEN [error |-> None, store |-> delete_by_ids(st, ids[1]),
                    issued |-> <<"delete_by_ids">>]
              ELSE IF TruthyDict(metadata_filter)
                   THEN [error |-> None,
                         store |-> delete_by_metadata(st, metadata_filter[1]),
                         issued |-> <<"delete_by_metadata">>]
                   ELSE [error |-> None, store |-> st, issued |-> <<>>]

\* VectorStore.verify_record_exists(record_id): the values it can return.  The
\* SELECT finds the row or not; a failing connection is caught and answered
\* with False.
verify_record_exists(st, record_id) == {st[uuid_of_str(record_id)] # None, FALSE}

----------------------------------------------------------------------------
(* VectorStore.create_index *)

\* str(e) of the exceptions vec_client.create_embedding_index raises, word by word
IndexExistsMessage == <<"relation", "documents_embedding_idx", "already", "exists">>

ConnectionMessage == <<"connection", "refused">>

\* `needle in text` for texts given word by word
Contains(text, needle) ==
    \E i \in 0..(Len(text) - Len(needle)) :
        \A j \in 1..Len(needle) : text[i + j] = needle[j]

\* vec_client.create_embedding_index(DiskAnnIndex()): what it raises, if
\* anything, and whether the index exists afterwards.  On an existing index
\* the CREATE INDEX statement raises, or does nothing when it is written IF
\* NOT EXISTS; the connection can fail at any time.
create_embedding_index(idx) ==
    {[raised |-> Some(ConnectionMessage), index |-> idx]}
        \cup (IF idx
              THEN {[raised |-> Some(IndexExistsMessage), index |-> TRUE],
                    [raised |-> None, index |-> TRUE]}
              ELSE {[raised |-> None, index |-> TRUE]})

\* create_index without the try/except around the library call
create_index_without_except(idx) ==
    {[error |-> o.raised, raised |-> o.raised, index |-> o.index] :
        o \in create_embedding_index(idx)}

\* VectorStore.create_index: the outcomes of one call
create_index(idx) ==
    {[error |-> IF o.raised # None /\ ~Contains(o.raised[1], <<"already", "exists">>)
                THEN o.raised ELSE None,
      raised |-> o.raised,
      index |-> o.index] : o \in create_embedding_index(idx)}

\* VectorStore.drop_index: DROP INDEX IF EXISTS
drop_index(idx) == FALSE

----------------------------------------------------------------------------
(* VectorStore.search *)

\* client.UUIDTimeRange(start_date, end_date): start inclusive, end exclusive
UUIDTimeRange(start_date, end_date) == [start_date |-> start_date, end_date |-> end_date]

\* a range the constructor of the client library may refuse: no bound at all,
\* or a start after the end.  Both outcomes are admitted for such a range.
RangeMayBeRefused(r) ==
    \/ r.start_date = None /\ r.end_date = None
    \/ r.start_date # None /\ r.end_date # None /\ r.start_date[1] > r.end_date[1]

InTimeRange(t, r) ==
    /\ r.start_date = None \/ t >= r.start_date[1]
    /\ r.end_date = None \/ t < r.end_date[1]

\* search sending the default of its signature (limit: int = 5) instead of
\* the caller's limit
SearchArgs_default_limit(limit, preds, tr) ==
    [limit |-> 5,
     predicates |-> IF TruthyObj(preds) THEN preds ELSE None,
     uuid_time_filter |-> IF TruthyObj(tr) THEN Some(UUIDTimeRange(tr[1][1], tr[1][2])) ELSE None]

\* search building its arguments without the `if time_range:` block
SearchArgs_without_time(limit, preds, tr) ==
    [limit |-> limit,
     predicates |-> IF TruthyObj(preds) THEN preds ELSE None,
     uuid_time_filter |-> None]

\* vector_store.py:139-151: the keyword arguments of vec_client.search; an
\* argument that is not sent is None.  No caller passes metadata_filter.
SearchArgs(limit, preds, tr) ==
    [limit |-> limit,
     predicates |-> IF TruthyObj(preds) THEN preds ELSE None,
     uuid_time_filter |-> IF TruthyObj(tr) THEN Some(UUIDTimeRange(tr[1][1], tr[1][2])) ELSE None]

\* the records the store's query ranks: those that pass the WHERE clause
Candidates(st, args) ==
    {r \in Stored(st) :
        /\ args.predicates = None \/ Eval(args.predicates[1], r.metadata)
        /\ args.uuid_time_filter = None \/ InTimeRange(TimeOfId(r.id), args.uuid_time_filter[1])}

ResultTuple(r, query_embedding) ==
    [id |-> r.id, metadata |-> r.metadata, contents |-> r.contents,
     embedding |-> r.embedding, distance |-> Distance(r.embedding, query_embedding)]

RECURSIVE OrderByDistanceLimit(_, _, _)
\* ORDER BY embedding <=> query LIMIT k over the candidates; records at the
\* same distance come in any order
OrderByDistanceLimit(cands, query_embedding, k) ==
    IF k = 0 \/ cands = {} THEN {<<>>}
    ELSE UNION { { <<ResultTuple(r, query_embedding)>> \o rest :
                     rest \in OrderByDistanceLimit(cands \ {r}, query_embedding, k - 1) } :
                 r \in { c \in cands : \A d \in cands :
                           Distance(c.embedding, query_embedding)
                             <= Distance(d.embedding, query_embedding) } }

\* vector_store.py:153: vec_client.search(query_embedding, **search_args)
vec_client_search(st, query_embedding, args) ==
    OrderByDistanceLimit(Candidates(st, args), query_embedding, args.limit)

BaseColumns == {"id", "content", "embedding", "distance"}

MetadataColumns(results) == UNION {DOMAIN results[i].metadata : i \in 1..Len(results)}

\* one row of the DataFrame: the tuple's columns without `metadata`, then the
\* metadata keys as columns (NaN where a record lacks the key)
DataFrameRow(t, columns) ==
    [c \in columns |->
        CASE c = "id" -> str_of_uuid(t.id)
          [] c = "content" -> t.contents
          [] c = "embedding" -> t.embedding
          [] c = "distance" -> t.distance
          [] OTHER -> IF c \in DOMAIN t.metadata THEN t.metadata[c] ELSE "NaN"]

\* VectorStore._create_dataframe_from_results
_create_dataframe_from_results(results) ==
    [columns |-> BaseColumns \cup MetadataColumns(results),
     rows |-> [i \in 1..Len(results) |->
                 DataFrameRow(results[i], BaseColumns \cup MetadataColumns(results))]]

\* search asking the store for the nearest `limit` records of the whole table
\* and applying the predicate and the time range to what came back
VectorStore_search_post_filter(st, query_text, limit, preds, tr) ==
    LET args == SearchArgs(limit, preds, tr)
        unfiltered == [limit |-> limit, predicates |-> None, uuid_time_filter |-> None]
        Keep(t) == t \in {ResultTuple(r, get_embedding(query_text)) : r \in Candidates(st, args)}
    IN  {[error |-> Some("EmbeddingError"), args |-> None, df |-> None]}
        \cup {[error |-> None, args |-> Some(args),
               df |-> Some(_create_dataframe_from_results(SelectSeq(results, Keep)))] :
                results \in vec_client_search(st, get_embedding(query_text), unfiltered)}

\* VectorStore.search(query_text, limit, predicates=preds, time_range=tr): the
\* outcomes of one call, each an error or the arguments sent and the DataFrame
VectorStore_search(st, query_text, limit, preds, tr) ==
    LET args == SearchArgs(limit, preds, tr)
        refused == args.uuid_time_filter # None /\ RangeMayBeRefused(args.uuid_time_filter[1])
    IN  {[error |-> Some("EmbeddingError"), args |-> None, df |-> None],
         [error |-> Some("SearchError"), args |-> Some(args), df |-> None]}
        \cup (IF refused THEN {[error |-> Some("ValueError"), args |-> None, df |-> None]} ELSE {})
        \cup {[error |-> None, args |-> Some(args), df |-> Some(_create_dataframe_from_results(results))] :
                results \in vec_client_search(st, get_embedding(query_text), args)}

----------------------------------------------------------------------------
(* Synthesizer *)

\* synthesizer.py:57-65
columns_to_keep ==
    {"title_in_english", "title_in_original_language", "sender", "sent_date",
     "addressed_to", "summary_in_english", "required_actions"}

\* the row['metadata'] and row['contents'] lookups of dataframe_to_json
MissingColumn(df) ==
    IF Len(df.rows) = 0 THEN None
    ELSE IF "metadata" \notin df.columns THEN Some("metadata")
    ELSE IF "contents" \notin df.columns THEN Some("contents")
    ELSE None

ProjectRow(row, keep) ==
    [k \in {"content"} \cup {c \in keep : c \in DOMAIN row["metadata"]} |->
        IF k = "content" THEN row["contents"] ELSE row["metadata"][k]]

\* Synthesizer.dataframe_to_json: a KeyError, or the projected records
dataframe_to_json(df, keep) ==
    IF MissingColumn(df) # None
    THEN [error |-> Some("KeyError"), records |-> <<>>]
    ELSE [error |-> None, records |-> [i \in 1..Len(df.rows) |-> ProjectRow(df.rows[i], keep)]]

\* Synthesizer.generate_response(question, context): the outcomes of one call
generate_response(question, context) ==
    IF dataframe_to_json(context, columns_to_keep).error # None
    THEN {[error |-> dataframe_to_json(context, columns_to_keep).error, response |-> None]}
    ELSE {[error |-> Some("SynthesisError"), response |-> None]}
         \cup {[error |-> None, response |-> Some(r)] : r \in SynthesizedResponse}

----------------------------------------------------------------------------
(* QueryProcessor.process_query and the ingestion script, step by step *)

\* the questions put to the processor
Questions == {<<"tax", "\n", "documents">>, <<"insurance", " ", "documents">>}

\* query_processor.py:45
PipelineLimit == 3

StageOrder == <<"Received", "Preprocessed", "PredicateBuilt", "Searched", "Synthesized", "Done">>

\* process_query passing a time range only when the filter has a bound
TimeRangeOf_requiring_a_bound(pre) ==
    IF /\ TruthyObj(pre.time_filter)
       /\ (pre.time_filter[1].start_date # None \/ pre.time_filter[1].end_date # None)
    THEN Some(<<pre.time_filter[1].start_date, pre.time_filter[1].end_date>>)
    ELSE None

\* query_processor.py:36-41
TimeRangeOf(pre) ==
    IF TruthyObj(pre.time_filter)
    THEN Some(<<pre.time_filter[1].start_date, pre.time_filter[1].end_date>>)
    ELSE None

\* an exception leaving process_query from the stage that was being entered
Raised(kind, stage) == Some([kind |-> kind, stage |-> stage])

NoCall == pc \in {"Idle", "Done", "Failed"}

\* no maintenance call made yet
NoAdmin == [op |-> "none", args |-> <<>>, error |-> None, out |-> <<>>]

\* no request sent yet
NoCalls == [extraction |-> 0, embedding |-> 0, search |-> 0, completion |-> 0]

\* the requests behind one outcome of VectorStore.search: the embedding request
\* of vector_store.py:135 comes first, the store is queried at line 153 unless
\* the embedding request or UUIDTimeRange raised
CallsOfSearch(o) ==
    [embedding |-> 1,
     search |-> IF o.error \in {None, Some("SearchError")} THEN 1 ELSE 0]

\* the completion requests behind one outcome of generate_response: none when
\* dataframe_to_json raised (synthesizer.py:55), one otherwise (synthesizer.py:78)
CallsOfSynthesis(o) == IF o.error = Some("KeyError") THEN 0 ELSE 1

\* strftime('%Y-%m-%d') of an instant: the day it falls in, two instants to a day
strftime_date(t) == (t + 1) \div 2

\* query_processor.py:67-74: the messages of the extraction request sent at
\* instant `now`
_preprocess_question_messages(question, now) ==
    <<[role |-> "system",
       content |-> <<"You are a query generator based on the user's question.",
                     "The current date is", strftime_date(now)>>],
      [role |-> "user", content |-> <<"# User question:", question>>]>>

\* the locals of a process_query call
Frame ==
    [pc |-> pc, user_question |-> user_question, preprocessed |-> preprocessed,
     predicates |-> predicates, time_range |-> time_range,
     search_args |-> search_args, search_results |-> search_results,
     response |-> response, result |-> result, error |-> error, stages |-> stages,
     calls |-> calls, rejected |-> rejected,
     extraction_request |-> extraction_request]

\* the locals of a call that has not started
IdleFrame ==
    [pc |-> "Idle", user_question |-> None, preprocessed |-> None,
     predicates |-> None, time_range |-> None, search_args |-> None,
     search_results |-> None, response |-> None, result |-> None, error |-> None,
     stages |-> <<>>, calls |-> NoCalls, rejected |-> {},
     extraction_request |-> None]

Init ==
    /\ store = EmptyStore
    /\ clock = 1
    /\ last_preprocessed_query = None
    /\ pc = "Idle"
    /\ user_question = None
    /\ preprocessed = None
    /\ predicates = None
    /\ time_range = None
    /\ search_args = None
    /\ search_results = None
    /\ response = None
    /\ result = None
    /\ error = None
    /\ stages = <<>>
    /\ calls = NoCalls
    /\ index = FALSE
    /\ admin = NoAdmin
    /\ rejected = {}
    /\ extraction_request = None
    /\ parked = IdleFrame

\* insert_vectors.py:55-62 for one analysed document: prepare_record, the
\* optional drop of the tables (DROP_EXISTING_TABLES), create_tables,
\* create_index, upsert.  It runs between
\* calls of the processor, whose finished call frame is gone by then.
Ingest ==
    /\ NoCall
    /\ clock <= MaxRecords
    /\ \E row \in Documents, drop \in BOOLEAN :
          /\ store' \in upsert(IF drop THEN drop_tables(store) ELSE store,
                               <<prepare_record(row, clock)>>)
          /\ \E o \in create_index(IF drop THEN FALSE ELSE index) :
                o.error = None /\ index' = o.index
    /\ clock' = clock + 1
    /\ pc' = "Idle"
    /\ user_question' = None
    /\ preprocessed' = None
    /\ predicates' = None
    /\ time_range' = None
    /\ search_args' = None
    /\ search_results' = None
    /\ response' = None
    /\ result' = None
    /\ error' = None
    /\ stages' = <<>>
    /\ UNCHANGED last_preprocessed_query
    /\ calls' = NoCalls
    /\ UNCHANGED admin
    /\ rejected' = {}
    /\ extraction_request' = None
    /\ UNCHANGED parked

\* query_processor.py:14: a caller enters process_query(user_question)
ReceiveQuery ==
    /\ NoCall
    /\ \E q \in Questions : user_question' = Some(q)
    /\ pc' = "Received"
    /\ stages' = <<"Received">>
    /\ preprocessed' = None
    /\ predicates' = None
    /\ time_range' = None
    /\ search_args' = None
    /\ search_results' = None
    /\ response' = None
    /\ result' = None
    /\ error' = None
    /\ UNCHANGED <<store, clock, last_preprocessed_query>>
    /\ calls' = NoCalls
    /\ UNCHANGED adminVars
    /\ rejected' = {}
    /\ extraction_request' = None
    /\ UNCHANGED parked

\* process_query filling the slot only while it is empty
Preprocess_keeping_first ==
    /\ pc = "Received"
    /\ \E o \in Extractions(user_question[1]) :
          /\ o.error = None
          /\ preprocessed' = o.value
          /\ last_preprocessed_query' =
                IF last_preprocessed_query = None THEN o.value ELSE last_preprocessed_query
    /\ pc' = "Preprocessed"
    /\ stages' = Append(stages, "Preprocessed")
    /\ UNCHANGED <<store, clock, user_question, predicates, time_range, search_args,
                   search_results, response, result, error>>
    /\ calls' = [calls EXCEPT !.extraction = @ + 1]
    /\ UNCHANGED adminVars
    /\ rejected' = {}
    /\ extraction_request' = Some(_preprocess_question_messages(user_question[1], clock))
    /\ UNCHANGED parked

\* query_processor.py:29-30
Preprocess ==
    /\ pc = "Received"
    /\ \E o \in Extractions(user_question[1]) :
          /\ o.error = None
          /\ preprocessed' = o.value
          /\ last_preprocessed_query' = o.value
    /\ pc' = "Preprocessed"
    /\ stages' = Append(stages, "Preprocessed")
    /\ UNCHANGED <<store, clock, user_question, predicates, time_range, search_args,
                   search_results, response, result, error>>
    /\ calls' = [calls EXCEPT !.extraction = @ + 1]
    /\ UNCHANGED adminVars
    /\ rejected' = {}
    /\ extraction_request' = Some(_preprocess_question_messages(user_question[1], clock))
    /\ UNCHANGED parked

\* process_query asking the extraction service a second time before it gives up
PreprocessFail_after_retry ==
    /\ pc = "Received"
    /\ error' = Raised("ExtractionError", "Preprocessed")
    /\ pc' = "Failed"
    /\ UNCHANGED <<store, clock, last_preprocessed_query, user_question, preprocessed,
                   predicates, time_range, search_args, search_results, response,
                   result, stages>>
    /\ calls' = [calls EXCEPT !.extraction = @ + 2]
    /\ UNCHANGED adminVars
    /\ rejected' = {}
    /\ extraction_request' = Some(_preprocess_question_messages(user_question[1], clock))
    /\ UNCHANGED parked

\* process_query resetting the slot when the preprocessing fails
PreprocessFail_clearing_slot ==
    /\ pc = "Received"
    /\ error' = Raised("ExtractionError", "Preprocessed")
    /\ pc' = "Failed"
    /\ last_preprocessed_query' = None
    /\ UNCHANGED <<store, clock, user_question, preprocessed, predicates, time_range,
                   search_args, search_results, response, result, stages>>
    /\ calls' = [calls EXCEPT !.extraction = @ + 1]
    /\ UNCHANGED adminVars
    /\ \E o \in Extractions(user_question[1]) :
          /\ o.error # None
          /\ rejected' = o.refused
    /\ extraction_request' = Some(_preprocess_question_messages(user_question[1], clock))
    /\ UNCHANGED parked

\* query_processor.py:29: llm.create_completion raises, because the request
\* failed or because the answer violates the schema
PreprocessFail ==
    /\ pc = "Received"
    /\ error' = Raised("ExtractionError", "Preprocessed")
    /\ pc' = "Failed"
    /\ UNCHANGED <<store, clock, last_preprocessed_query, user_question, preprocessed,
                   predicates, time_range, search_args, search_results, response,
                   result, stages>>
    /\ calls' = [calls EXCEPT !.extraction = @ + 1]
    /\ UNCHANGED adminVars
    /\ \E o \in Extractions(user_question[1]) :
          /\ o.error # None
          /\ rejected' = o.refused
    /\ extraction_request' = Some(_preprocess_question_messages(user_question[1], clock))
    /\ UNCHANGED parked

\* process_query building the predicate from the slot of the processor
BuildPredicates_from_slot ==
    /\ pc = "Preprocessed"
    /\ predicates' = _build_predicates(last_preprocessed_query[1])
    /\ pc' = "PredicateBuilt"
    /\ stages' = Append(stages, "PredicateBuilt")
    /\ UNCHANGED <<store, clock, last_preprocessed_query, user_question, preprocessed,
                   time_range, search_args, search_results, response, result, error>>
    /\ UNCHANGED calls
    /\ UNCHANGED adminVars
    /\ UNCHANGED <<rejected, extraction_request, parked>>

\* query_processor.py:33
BuildPredicates ==
    /\ pc = "Preprocessed"
    /\ predicates' = _build_predicates(preprocessed[1])
    /\ pc' = "PredicateBuilt"
    /\ stages' = Append(stages, "PredicateBuilt")
    /\ UNCHANGED <<store, clock, last_preprocessed_query, user_question, preprocessed,
                   time_range, search_args, search_results, response, result, error>>
    /\ UNCHANGED calls
    /\ UNCHANGED adminVars
    /\ UNCHANGED <<rejected, extraction_request, parked>>

\* search answering from results it remembered when the table was empty
SearchOutcomes_from_cache ==
    VectorStore_search(EmptyStore, user_question[1], PipelineLimit, predicates,
                       TimeRangeOf(preprocessed[1]))

\* the outcomes of query_processor.py:36-48
SearchOutcomes ==
    VectorStore_search(store, user_question[1], PipelineLimit, predicates,
                       TimeRangeOf(preprocessed[1]))

\* process_query searching right after preprocessing, before the predicate
\* is built
Search_before_build ==
    /\ pc = "Preprocessed"
    /\ time_range' = TimeRangeOf(preprocessed[1])
    /\ \E o \in SearchOutcomes :
          /\ o.error = None
          /\ search_args' = o.args
          /\ calls' = [calls EXCEPT !.embedding = @ + CallsOfSearch(o).embedding,
                                    !.search = @ + CallsOfSearch(o).search]
          /\ search_results' = o.df
    /\ pc' = "Searched"
    /\ stages' = Append(stages, "Searched")
    /\ UNCHANGED <<store, clock, last_preprocessed_query, user_question, preprocessed,
                   predicates, response, result, error>>
    /\ UNCHANGED adminVars
    /\ UNCHANGED <<rejected, extraction_request, parked>>

\* query_processor.py:36-48
Search ==
    /\ pc = "PredicateBuilt"
    /\ time_range' = TimeRangeOf(preprocessed[1])
    /\ \E o \in SearchOutcomes :
          /\ o.error = None
          /\ search_args' = o.args
          /\ calls' = [calls EXCEPT !.embedding = @ + CallsOfSearch(o).embedding,
                                    !.search = @ + CallsOfSearch(o).search]
          /\ search_results' = o.df
    /\ pc' = "Searched"
    /\ stages' = Append(stages, "Searched")
    /\ UNCHANGED <<store, clock, last_preprocessed_query, user_question, preprocessed,
                   predicates, response, result, error>>
    /\ UNCHANGED adminVars
    /\ UNCHANGED <<rejected, extraction_request, parked>>

\* query_processor.py:43-48: the embedding call, UUIDTimeRange or the store raises
SearchFail ==
    /\ pc = "PredicateBuilt"
    /\ time_range' = TimeRangeOf(preprocessed[1])
    /\ \E o \in SearchOutcomes :
          /\ o.error # None
          /\ search_args' = o.args
          /\ calls' = [calls EXCEPT !.embedding = @ + CallsOfSearch(o).embedding,
                                    !.search = @ + CallsOfSearch(o).search]
          /\ error' = Raised(o.error[1], "Searched")
    /\ pc' = "Failed"
    /\ UNCHANGED <<store, clock, last_preprocessed_query, user_question, preprocessed,
                   predicates, search_results, response, result, stages>>
    /\ UNCHANGED adminVars
    /\ UNCHANGED <<rejected, extraction_request, parked>>

\* query_processor.py:51-54
Synthesize ==
    /\ pc = "Searched"
    /\ \E o \in generate_response(user_question[1], search_results[1]) :
          /\ o.error = None
          /\ response' = o.response
          /\ calls' = [calls EXCEPT !.completion = @ + CallsOfSynthesis(o)]
    /\ pc' = "Synthesized"
    /\ stages' = Append(stages, "Synthesized")
    /\ UNCHANGED <<store, clock, last_preprocessed_query, user_question, preprocessed,
                   predicates, time_range, search_args, search_results, result, error>>
    /\ UNCHANGED adminVars
    /\ UNCHANGED <<rejected, extraction_request, parked>>

\* process_query catching a synthesis failure and returning the
\* preprocessing alone
SynthesizeFail_partial_result ==
    /\ pc = "Searched"
    /\ \E o \in generate_response(user_question[1], search_results[1]) :
          /\ o.error # None
          /\ calls' = [calls EXCEPT !.completion = @ + CallsOfSynthesis(o)]
    /\ result' = Some([response |-> None, preprocessing |-> preprocessed[1]])
    /\ pc' = "Done"
    /\ UNCHANGED <<store, clock, last_preprocessed_query, user_question, preprocessed,
                   predicates, time_range, search_args, search_results, response,
                   error, stages>>
    /\ UNCHANGED adminVars
    /\ UNCHANGED <<rejected, extraction_request, parked>>

\* query_processor.py:51-54: dataframe_to_json or the completion raises
SynthesizeFail ==
    /\ pc = "Searched"
    /\ \E o \in generate_response(user_question[1], search_results[1]) :
          /\ o.error # None
          /\ error' = Raised(o.error[1], "Synthesized")
          /\ calls' = [calls EXCEPT !.completion = @ + CallsOfSynthesis(o)]
    /\ pc' = "Failed"
    /\ UNCHANGED <<store, clock, last_preprocessed_query, user_question, preprocessed,
                   predicates, time_range, search_args, search_results, response,
                   result, stages>>
    /\ UNCHANGED adminVars
    /\ UNCHANGED <<rejected, extraction_request, parked>>

\* process_query raising when the model reports enough_context = false
Return_raising_without_context ==
    /\ pc = "Synthesized"
    /\ IF response[1].enough_context
       THEN /\ result' = Some([response |-> response[1], preprocessing |-> preprocessed[1]])
            /\ pc' = "Done"
            /\ stages' = Append(stages, "Done")
            /\ error' = error
       ELSE /\ error' = Raised("NotEnoughContext", "Done")
            /\ pc' = "Failed"
            /\ UNCHANGED <<result, stages>>
    /\ UNCHANGED <<store, clock, last_preprocessed_query, user_question, preprocessed,
                   predicates, time_range, search_args, search_results, response>>
    /\ UNCHANGED calls
    /\ UNCHANGED adminVars
    /\ UNCHANGED <<rejected, extraction_request, parked>>

\* query_processor.py:56-59
Return ==
    /\ pc = "Synthesized"
    /\ result' = Some([response |-> response[1], preprocessing |-> preprocessed[1]])
    /\ pc' = "Done"
    /\ stages' = Append(stages, "Done")
    /\ UNCHANGED <<store, clock, last_preprocessed_query, user_question, preprocessed,
                   predicates, time_range, search_args, search_results, response, error>>
    /\ UNCHANGED calls
    /\ UNCHANGED adminVars
    /\ UNCHANGED <<rejected, extraction_request, parked>>

Next ==
    \/ Ingest
    \/ ReceiveQuery
    \/ Preprocess
    \/ PreprocessFail
    \/ BuildPredicates
    \/ Search
    \/ SearchFail
    \/ Synthesize
    \/ SynthesizeFail
    \/ Return

Spec == Init /\ [][Next]_vars

----------------------------------------------------------------------------
(* The methods of VectorStore called one by one by a maintenance script.     *)
(* `admin` keeps the last call: its name, its arguments, the exception it    *)
(* raised and what it answered.                                              *)

\* a record built by the docstrings of VectorStore (vector_store.py:79, 121):
\* metadata of the caller's choice, the embedding that of the contents
ShippingRecord(now) ==
    [id |-> str_of_uuid(uuid_from_time(now)),
     metadata |-> [category |-> "Shipping"],
     contents |-> <<"shipping", " ", "options">>,
     embedding |-> get_embedding(<<"shipping", " ", "options">>)]

\* the ids the maintenance script works on
ScriptIds == {uuid_from_time(t) : t \in 1..MaxScriptIds}

\* the records handed to upsert: analysed documents prepared at some time,
\* and records with a metadata of their own
UpsertRecords ==
    {prepare_record(row, t) : row \in Documents, t \in 1..MaxScriptIds}
        \cup {ShippingRecord(t) : t \in 1..MaxScriptIds}

\* the `ids` handed to delete: None, the empty list, a list of one id
DeleteIds == {None, Some(<<>>)} \cup {Some(<<str_of_uuid(id)>>) : id \in ScriptIds}

\* the `metadata_filter` handed to delete: None, the empty dict, one pair
DeleteFilters ==
    {None, Some({}), Some({<<"category", "Shipping">>}), Some({<<"sender", "Tax">>})}

\* VectorStore.upsert(df) for a DataFrame of one record; `out` is the row the
\* table held under the id of the record
Upsert ==
    /\ \E rec \in UpsertRecords :
          /\ store' \in upsert(store, <<rec>>)
          /\ admin' = [op |-> "upsert", args |-> <<rec>>, error |-> None,
                       out |-> <<store[RowOf(rec).id]>>]
    /\ UNCHANGED <<index, callVars>>

\* VectorStore.delete(ids, metadata_filter, delete_all); `out` is the number
\* of rows the call removed, `issued` the calls it made to vec_client
Delete ==
    /\ \E ids \in DeleteIds, metadata_filter \in DeleteFilters, delete_all \in BOOLEAN :
          /\ store' = delete(store, ids, metadata_filter, delete_all).store
          /\ admin' = [op |-> "delete",
                       args |-> [ids |-> ids, metadata_filter |-> metadata_filter,
                                 delete_all |-> delete_all],
                       error |-> delete(store, ids, metadata_filter, delete_all).error,
                       issued |-> delete(store, ids, metadata_filter, delete_all).issued,
                       out |-> Cardinality(Stored(store))
                                 - Cardinality(Stored(delete(store, ids, metadata_filter,
                                                             delete_all).store))]
    /\ UNCHANGED <<index, callVars>>

\* VectorStore.verify_record_exists(record_id); `out` is the value returned
VerifyRecordExists ==
    /\ \E id \in ScriptIds : \E found \in verify_record_exists(store, str_of_uuid(id)) :
          admin' = [op |-> "verify_record_exists", args |-> str_of_uuid(id),
                    error |-> None, out |-> found]
    /\ UNCHANGED <<store, index, callVars>>

\* VectorStore.create_index(); `out` is what the client library raised
CreateIndex ==
    /\ \E o \in create_index(index) :
          /\ index' = o.index
          /\ admin' = [op |-> "create_index", args |-> <<>>, error |-> o.error,
                       out |-> o.raised]
    /\ UNCHANGED <<store, callVars>>

\* VectorStore.drop_index()
DropIndex ==
    /\ index' = drop_index(index)
    /\ admin' = [op |-> "drop_index", args |-> <<>>, error |-> None, out |-> <<>>]
    /\ UNCHANGED <<store, callVars>>

\* vector_store.py:90: the default of `limit`
DefaultLimit == 5

\* VectorStore.search(query_text), with the default limit and without a
\* filter; `out` is the DataFrame returned
SearchTable ==
    /\ \E query_text \in Questions :
          \E o \in VectorStore_search(store, query_text, DefaultLimit, None, None) :
              admin' = [op |-> "search", args |-> query_text,
                        error |-> o.error, out |-> o.df]
    /\ UNCHANGED <<store, index, callVars>>

NextStore ==
    \/ Upsert
    \/ Delete
    \/ VerifyRecordExists
    \/ CreateIndex
    \/ DropIndex
    \/ SearchTable

SpecStore == Init /\ [][NextStore]_vars

----------------------------------------------------------------------------
(* Two callers of one QueryProcessor.  The locals of the call that is not   *)
(* running are in `parked`; the processor, its slot and the table are shared *)
(* by both.  Days pass between the steps.  The table stays empty.            *)

\* the thread of the running call is suspended and the other caller runs on
Switch ==
    /\ parked' = Frame
    /\ pc' = parked.pc
    /\ user_question' = parked.user_question
    /\ preprocessed' = parked.preprocessed
    /\ predicates' = parked.predicates
    /\ time_range' = parked.time_range
    /\ search_args' = parked.search_args
    /\ search_results' = parked.search_results
    /\ response' = parked.response
    /\ result' = parked.result
    /\ error' = parked.error
    /\ stages' = parked.stages
    /\ calls' = parked.calls
    /\ rejected' = parked.rejected
    /\ extraction_request' = parked.extraction_request
    /\ UNCHANGED <<store, clock, last_preprocessed_query, index, admin>>

\* datetime.now() a day later
DayPasses ==
    /\ clock + 2 <= MaxRecords
    /\ clock' = clock + 2
    /\ UNCHANGED <<store, last_preprocessed_query, pc, user_question, preprocessed,
                   predicates, time_range, search_args, search_results, response,
                   result, error, stages, calls, index, admin, rejected,
                   extraction_request, parked>>

\* the answers of the extraction service the two callers get
AnswersOfTwoCallers ==
    {pre \in UNION {UserQuestionPreprocessing(q) : q \in Questions} :
        \/ /\ pre.sender = Some("Tax")
           /\ pre.addressed_to = None
           /\ pre.time_filter = Some([start_date |-> Some(2), end_date |-> Some(3)])
        \/ /\ pre.sender = None
           /\ pre.addressed_to = Some("Nune Grygorian")
           /\ pre.time_filter = None}

PreprocessOfTwoCallers == Preprocess /\ preprocessed'[1] \in AnswersOfTwoCallers

NextCalls ==
    \/ ReceiveQuery
    \/ PreprocessOfTwoCallers
    \/ PreprocessFail
    \/ BuildPredicates
    \/ Search
    \/ SearchFail
    \/ Synthesize
    \/ SynthesizeFail
    \/ Return
    \/ Switch
    \/ DayPasses

SpecCalls == Init /\ [][NextCalls]_vars

----------------------------------------------------------------------------
(* Properties of the Predicate Builder *)

\* the call has completed the given stage
Completed(stage) == \E i \in 1..Len(stages) : stages[i] = stage

\* metadata mappings a record may carry in the fields the builder's leaves read
MetadataSamples ==
    UNION { [K -> {"Tax", "Health", "Artur Grygorian", "Nune Grygorian"}] :
              K \in SUBSET {"category", "sender", "addressed_to"} }

BothPresent ==
    /\ Completed("PredicateBuilt")
    /\ TruthyStr(preprocessed[1].sender)
    /\ TruthyStr(preprocessed[1].addressed_to)

OnlySenderPresent ==
    /\ Completed("PredicateBuilt")
    /\ TruthyStr(preprocessed[1].sender)
    /\ ~TruthyStr(preprocessed[1].addressed_to)

OnlyAddressedToPresent ==
    /\ Completed("PredicateBuilt")
    /\ ~TruthyStr(preprocessed[1].sender)
    /\ TruthyStr(preprocessed[1].addressed_to)

NeitherPresent ==
    /\ Completed("PredicateBuilt")
    /\ ~TruthyStr(preprocessed[1].sender)
    /\ ~TruthyStr(preprocessed[1].addressed_to)

\* C1: when both sender and addressed_to are present, a record satisfies the
\* built predicate exactly when it satisfies the sender leaf or the
\* addressed_to leaf: either leaf alone is enough, neither is not (OR, not AND).
C1_OrOfLeaves ==
    BothPresent =>
        /\ predicates # None
        /\ \A m \in MetadataSamples :
              Eval(predicates[1], m) <=>
                  \/ Eval(SenderLeaf(preprocessed[1])[1], m)
                  \/ Eval(AddressedToLeaf(preprocessed[1])[1], m)

\* both constraints present, and records matching only one leaf pass while a
\* record matching neither fails
C1_Witness ==
    /\ BothPresent
    /\ \E m \in MetadataSamples :
          /\ Eval(SenderLeaf(preprocessed[1])[1], m)
          /\ ~Eval(AddressedToLeaf(preprocessed[1])[1], m)
          /\ Eval(predicates[1], m)
    /\ \E m \in MetadataSamples :
          /\ ~Eval(SenderLeaf(preprocessed[1])[1], m)
          /\ Eval(AddressedToLeaf(preprocessed[1])[1], m)
          /\ Eval(predicates[1], m)
    /\ \E m \in MetadataSamples : ~Eval(predicates[1], m)

\* C2: when exactly one of sender and addressed_to is present, the built
\* predicate is that one equality leaf itself: no OR/AND node around it and no
\* second leaf.
C2_SingleLeaf ==
    /\ OnlySenderPresent =>
          /\ predicates = Some(SenderLeaf(preprocessed[1])[1])
          /\ predicates[1].kind = "leaf"
          /\ predicates[1].op = "=="
          /\ predicates[1].value = preprocessed[1].sender[1]
    /\ OnlyAddressedToPresent =>
          /\ predicates = Some(AddressedToLeaf(preprocessed[1])[1])
          /\ predicates[1].kind = "leaf"
          /\ predicates[1].op = "=="
          /\ predicates[1].value = preprocessed[1].addressed_to[1]

C2_Witness ==
    /\ OnlyAddressedToPresent
    /\ predicates # None
    /\ Leaves(predicates[1]) = {Leaf("addressed_to", "==", "Nune Grygorian")}

\* records of the store that lie in the time range the call asked for
InAskedRange ==
    {r \in Stored(store) :
        time_range = None \/ InTimeRange(TimeOfId(r.id), UUIDTimeRange(time_range[1][1], time_range[1][2]))}

Min(a, b) == IF a <= b THEN a ELSE b

RowIds(df) == {df.rows[i]["id"] : i \in 1..Len(df.rows)}

\* C3: when neither sender nor addressed_to is present, the builder returns
\* None, search sends no predicate to the store, and every stored record (of
\* the asked time range) is a candidate: the nearest `limit` of them come back.
C3_NoPredicate ==
    NeitherPresent =>
        /\ predicates = None
        /\ search_args # None => search_args[1].predicates = None
        /\ search_results # None =>
              /\ Len(search_results[1].rows) = Min(PipelineLimit, Cardinality(InAskedRange))
              /\ RowIds(search_results[1]) \subseteq {str_of_uuid(r.id) : r \in InAskedRange}

\* an unfiltered search over a store with records addressed to both recipients
\* returned all of them
C3_Witness ==
    /\ NeitherPresent
    /\ time_range = None
    /\ search_results # None
    /\ Len(search_results[1].rows) = 2
    /\ \E i, j \in 1..2 :
          search_results[1].rows[i]["addressed_to"] # search_results[1].rows[j]["addressed_to"]

\* C4: for sender = Tax and addressed_to = Nune Grygorian the predicate is
\* sender == Tax OR addressed_to == Nune Grygorian, so a stored record whose
\* metadata sender is Tax and whose addressed_to differs satisfies it.
C4_SenderLeafReadsSender ==
    (/\ BothPresent
     /\ preprocessed[1].sender = Some("Tax")
     /\ preprocessed[1].addressed_to = Some("Nune Grygorian")) =>
        \A r \in Stored(store) :
            r.metadata.sender = "Tax" /\ r.metadata.addressed_to # "Nune Grygorian"
                => /\ predicates = Some(Or(Leaf("sender", "==", "Tax"),
                                           Leaf("addressed_to", "==", "Nune Grygorian")))
                   /\ Eval(predicates[1], r.metadata)

----------------------------------------------------------------------------
(* Properties of process_query *)

IsPrefix(s, t) == Len(s) <= Len(t) /\ \A i \in 1..Len(s) : s[i] = t[i]

\* C5: the stages of a call run in the order Received, Preprocessed,
\* PredicateBuilt, Searched, Synthesized, Done: each output exists exactly when
\* its stage has completed after all earlier ones, none is skipped or repeated,
\* and the search is sent the predicate and the time range of this call's
\* preprocessing result.
C5_StageOrder ==
    /\ IsPrefix(stages, StageOrder)
    /\ pc \notin {"Idle", "Failed"} => stages # <<>> /\ pc = stages[Len(stages)]
    /\ pc = "Failed" => stages # <<>> /\ Len(stages) < Len(StageOrder) - 1
    /\ preprocessed # None <=> Completed("Preprocessed")
    /\ predicates # None => Completed("PredicateBuilt")
    /\ search_results # None <=> Completed("Searched")
    /\ response # None <=> Completed("Synthesized")
    /\ result # None <=> Completed("Done")
    /\ search_args # None =>
          /\ Completed("PredicateBuilt")
          /\ search_args[1].limit = PipelineLimit
          /\ search_args[1].predicates = predicates
          /\ predicates = _build_predicates(preprocessed[1])
          /\ IF preprocessed[1].time_filter = None
             THEN time_range = None /\ search_args[1].uuid_time_filter = None
             ELSE /\ time_range = Some(<<preprocessed[1].time_filter[1].start_date,
                                         preprocessed[1].time_filter[1].end_date>>)
                  /\ search_args[1].uuid_time_filter = Some(preprocessed[1].time_filter[1])

\* a call went through all six stages with a predicate and a time range
C5_Witness ==
    /\ stages = StageOrder
    /\ search_args[1].predicates # None
    /\ search_args[1].uuid_time_filter # None

\* C6: a failing stage ends the call: the stages after it did not run and left
\* no output, the error of that stage is the one the caller gets, and no result
\* object is returned.
C6_FailureAborts ==
    /\ error # None <=> pc = "Failed"
    /\ result # None => error = None /\ stages = StageOrder /\ result[1].response = response[1]
    /\ pc = "Failed" =>
          /\ result = None
          /\ error[1].stage = "Preprocessed" =>
                /\ stages = SubSeq(StageOrder, 1, 1)
                /\ error[1].kind = "ExtractionError"
                /\ preprocessed = None /\ predicates = None /\ search_args = None
                /\ search_results = None /\ response = None
          /\ error[1].stage = "Searched" =>
                /\ stages = SubSeq(StageOrder, 1, 3)
                /\ error[1].kind \in {"EmbeddingError", "ValueError", "SearchError"}
                /\ search_results = None /\ response = None
          /\ error[1].stage = "Synthesized" =>
                /\ stages = SubSeq(StageOrder, 1, 4)
                /\ error[1].kind \in {"KeyError", "SynthesisError"}
                /\ response = None
          /\ error[1].stage \in {"Preprocessed", "Searched", "Synthesized"}

\* the completion of the synthesis stage failed after preprocessing and search
\* had succeeded
C6_Witness ==
    /\ pc = "Failed"
    /\ error = Raised("SynthesisError", "Synthesized")
    /\ preprocessed # None
    /\ search_results # None
    /\ result = None

\* C7: a synthesis that reports enough_context = false is a normal result, not
\* an error, and an error is never a result: the call goes from Synthesized to
\* Done with {response, preprocessing}, also when the search found no record.
C7_NotEnoughContextIsAResult ==
    /\ (response # None /\ ~response[1].enough_context) =>
          /\ error = None
          /\ pc \in {"Synthesized", "Done"}
          /\ pc = "Done" => result = Some([response |-> response[1],
                                           preprocessing |-> preprocessed[1]])
    /\ error # None => result = None /\ response = None
    /\ pc = "Done" => result # None /\ error = None

\* a call is Done with enough_context = false after a search without records
C7_Witness ==
    /\ pc = "Done"
    /\ ~result[1].response.enough_context
    /\ Len(search_results[1].rows) = 0

\* C8: the time window is no part of the predicate: the predicate holds only
\* the sender and addressed_to leaves, the window goes to search as time_range
\* and from there to the store as uuid_time_filter, and the records returned
\* are those whose id's creation time lies in the window, whatever their
\* sent_date metadata.
C8_TimeRangeSeparate ==
    /\ predicates # None =>
          Leaves(predicates[1]) \subseteq
              {SenderLeaf(preprocessed[1])[i] : i \in 1..Len(SenderLeaf(preprocessed[1]))}
                \cup {AddressedToLeaf(preprocessed[1])[i] :
                        i \in 1..Len(AddressedToLeaf(preprocessed[1]))}
    /\ predicates # None =>
          \A l \in Leaves(predicates[1]) : l.field \in {"category", "addressed_to"}
    /\ search_args # None =>
          search_args[1].uuid_time_filter =
              (IF preprocessed[1].time_filter = None THEN None
               ELSE Some(UUIDTimeRange(preprocessed[1].time_filter[1].start_date,
                                       preprocessed[1].time_filter[1].end_date)))
    /\ (search_results # None /\ preprocessed[1].time_filter # None) =>
          \A i \in 1..Len(search_results[1].rows) :
              InTimeRange(TimeOfId(uuid_of_str(search_results[1].rows[i]["id"])),
                          preprocessed[1].time_filter[1])

\* a search with a window returned a record created inside the window whose
\* sent_date lies outside it
C8_Witness ==
    /\ search_results # None
    /\ preprocessed[1].time_filter = Some([start_date |-> Some(2), end_date |-> Some(3)])
    /\ \E i \in 1..Len(search_results[1].rows) :
          /\ TimeOfId(uuid_of_str(search_results[1].rows[i]["id"])) = 2
          /\ search_results[1].rows[i]["sent_date"] = 3

----------------------------------------------------------------------------
(* Properties of VectorStore.search *)

\* the successful outcomes of the search the call is about to make, were it
\* made with the given limit
SearchesWithLimit(limit) ==
    {o.df[1] : o \in {x \in VectorStore_search(store, user_question[1], limit, predicates,
                                               TimeRangeOf(preprocessed[1])) : x.error = None}}

\* the DataFrames to judge in a state: the one the call got, and before the
\* search those every limit would give
SearchesToJudge ==
    (IF search_results # None THEN {<<PipelineLimit, search_results[1]>>} ELSE {})
        \cup (IF pc = "PredicateBuilt"
              THEN UNION {{<<limit, df>> : df \in SearchesWithLimit(limit)} : limit \in 1..MaxLimit}
              ELSE {})

QueryEmbedding == get_embedding(user_question[1])

SortedByDistance(df) ==
    /\ \A i \in 1..Len(df.rows) :
          df.rows[i]["distance"] = Distance(df.rows[i]["embedding"], QueryEmbedding)
    /\ \A i \in 1..(Len(df.rows) - 1) : df.rows[i]["distance"] <= df.rows[i + 1]["distance"]

\* C9: for every store, question, limit, predicate and time range a search
\* returns at most `limit` rows in order of non-decreasing distance to the
\* question; the context of the synthesizer has at most 3 records.
C9_LimitAndOrder ==
    /\ \A s \in SearchesToJudge : Len(s[2].rows) <= s[1] /\ SortedByDistance(s[2])
    /\ search_results # None => Len(search_results[1].rows) <= 3

\* the call got 3 rows at rising distances from a store of 4 records in range
C9_Witness ==
    /\ search_results # None
    /\ predicates = None
    /\ Cardinality(InAskedRange) = 4
    /\ Len(search_results[1].rows) = 3
    /\ search_results[1].rows[1]["distance"] < search_results[1].rows[3]["distance"]

\* the stored records that satisfy the call's predicate and lie in its window
Matching ==
    {r \in Stored(store) :
        /\ predicates = None \/ Eval(predicates[1], r.metadata)
        /\ preprocessed[1].time_filter = None
              \/ InTimeRange(TimeOfId(r.id), preprocessed[1].time_filter[1])}

Returned(df) == {r \in Stored(store) : str_of_uuid(r.id) \in RowIds(df)}

\* C10: filtering is pre-filter: every returned record satisfies the predicate
\* and lies in the time range, the rows are distinct records, as many as the
\* limit allows among the satisfying ones (exactly `limit` when that many
\* satisfy both), and no satisfying record left out is nearer than a returned one.
C10_PreFilter ==
    \A s \in SearchesToJudge :
        /\ Returned(s[2]) \subseteq Matching
        /\ Cardinality(RowIds(s[2])) = Len(s[2].rows)
        /\ Len(s[2].rows) = Min(s[1], Cardinality(Matching))
        /\ \A r \in Matching \ Returned(s[2]) :
              \A i \in 1..Len(s[2].rows) :
                  s[2].rows[i]["distance"] <= Distance(r.embedding, QueryEmbedding)

\* the call got 3 rows under a predicate although a record that fails the
\* predicate is nearer to the question than each of them
C10_Witness ==
    /\ search_results # None
    /\ predicates # None
    /\ Len(search_results[1].rows) = 3
    /\ \E r \in Stored(store) \ Matching :
          \A i \in 1..3 :
              Distance(r.embedding, QueryEmbedding) < search_results[1].rows[i]["distance"]

----------------------------------------------------------------------------
(* Properties of the maintenance operations of the VectorStore *)

\* the last maintenance call was an upsert of one record
Upserted == admin.op = "upsert" /\ admin.error = None

\* C11: upsert is idempotent by id: after an upsert the table holds at most
\* one record per id, the record upserted is the one stored under its id,
\* also when the id was in the table before, and upserting the same record
\* again leaves the table as it is.
C11_UpsertReplaces ==
    Upserted =>
        /\ Cardinality(Stored(store)) = Cardinality({r.id : r \in Stored(store)})
        /\ store[RowOf(admin.args[1]).id] = Some(RowOf(admin.args[1]))
        /\ upsert(store, admin.args) = {store}

\* the criteria a delete call was given: a list of ids, a dict of filters
\* (empty or not), delete_all=True
Supplied(args) ==
    (IF args.ids # None THEN 1 ELSE 0) + (IF args.metadata_filter # None THEN 1 ELSE 0)
        + (IF args.delete_all THEN 1 ELSE 0)

\* C12: a delete call given none, or more than one, of ids, metadata_filter
\* and delete_all is refused before any deletion is issued: it removes no
\* record from the table.
C12_RefusedDeleteRemovesNothing ==
    admin.op = "delete" /\ Supplied(admin.args) # 1 => admin.out = 0

\* the arguments are those of delete(ids=[x]) for one id x
DeleteOfOneId(args) ==
    /\ args.ids # None /\ Len(args.ids[1]) = 1
    /\ args.metadata_filter = None
    /\ ~args.delete_all

\* C13: a call delete(ids=[x]) raises nothing, afterwards the table has no
\* record under x and verify_record_exists(x) can only answer False, and every
\* record under another id is in the table as it was before the call.
C13_DeleteByIdFrame ==
    [][(admin'.op = "delete" /\ DeleteOfOneId(admin'.args))
         => /\ admin'.error = None
            /\ store'[uuid_of_str(admin'.args.ids[1][1])] = None
            /\ verify_record_exists(store', admin'.args.ids[1][1]) = {FALSE}
            /\ \A id \in Ids \ {uuid_of_str(admin'.args.ids[1][1])} :
                  store'[id] = store[id]]_vars

\* delete(ids=[x]) has removed the record under x from a table that holds
\* other records, which are still there
C13_Witness ==
    /\ admin.op = "delete" /\ DeleteOfOneId(admin.args)
    /\ admin.error = None
    /\ admin.out = 1
    /\ store[uuid_of_str(admin.args.ids[1][1])] = None
    /\ Cardinality(Stored(store)) = 2

\* C14: create_index is idempotent: a call that finds the index in place
\* raises nothing, unless the connection itself fails, and leaves the index
\* and the stored records as they were; whatever the client library raises
\* for another reason than the index being there reaches the caller.
C14_CreateIndexIdempotent ==
    [][admin'.op = "create_index"
         => /\ store' = store
            /\ index => index'
            /\ (index /\ admin'.out # Some(ConnectionMessage)) => admin'.error = None
            /\ (admin'.out # None /\ admin'.out # Some(IndexExistsMessage))
                  => admin'.error = admin'.out]_vars

\* create_index was called on a table with records whose index existed: the
\* client library raised "already exists" and the call raised nothing
C14_Witness ==
    /\ admin.op = "create_index"
    /\ admin.out = Some(IndexExistsMessage)
    /\ admin.error = None
    /\ index
    /\ Stored(store) # {}

----------------------------------------------------------------------------
(* Properties of the processor across calls *)

\* C15: last_preprocessed_query is one slot, written by every call: it holds
\* at most one preprocessing result, from the moment a call has preprocessed
\* its question the slot is that call's result, whatever an earlier call had
\* left there, and when the call returns the slot is the `preprocessing`
\* field of the result it returns.
C15_SingleSlot ==
    /\ Len(last_preprocessed_query) <= 1
    /\ Completed("Preprocessed") => last_preprocessed_query = preprocessed
    /\ pc = "Done" =>
          /\ last_preprocessed_query = Some(result[1].preprocessing)
          /\ last_preprocessed_query[1].question = user_question[1]

\* a call has returned and the slot is the preprocessing of its result
C15_Witness ==
    /\ pc = "Done"
    /\ result # None
    /\ last_preprocessed_query = Some(result[1].preprocessing)
    /\ last_preprocessed_query[1].question = user_question[1]

\* C16: no stage is retried: in every call, finished, failed or under way, the
\* extraction service, the embedding provider, the store search and the
\* synthesis completion have each been asked at most once, and exactly once
\* when their stage has completed.
C16_NoRetry ==
    /\ \A service \in DOMAIN calls : calls[service] <= 1
    /\ Completed("Preprocessed") => calls.extraction = 1
    /\ Completed("Searched") => calls.embedding = 1 /\ calls.search = 1
    /\ Completed("Synthesized") => calls.completion = 1
    /\ pc = "Failed" => calls.extraction = 1

\* a call failed in the synthesis completion after one request to each of the
\* four services
C16_Witness ==
    /\ pc = "Failed"
    /\ error = Raised("SynthesisError", "Synthesized")
    /\ calls = [extraction |-> 1, embedding |-> 1, search |-> 1, completion |-> 1]

\* C17: nothing is cached: a call that has searched has sent one embedding
\* request and one store search of its own, and its rows are computed from the
\* table as it is during the call and from the embedding of its own question:
\* every row is a record of the table with its stored contents, at its
\* distance from the question, and every record that satisfies the filters is
\* among the rows as far as the limit allows.  A record upserted, or dropped,
\* since an earlier call with the same question is returned, or missing,
\* accordingly.
C17_NoCache ==
    search_results # None =>
        /\ calls.embedding = 1 /\ calls.search = 1
        /\ \A i \in 1..Len(search_results[1].rows) :
              /\ search_results[1].rows[i]["distance"]
                    = Distance(search_results[1].rows[i]["embedding"], QueryEmbedding)
              /\ \E r \in Stored(store) :
                    /\ str_of_uuid(r.id) = search_results[1].rows[i]["id"]
                    /\ r.contents = search_results[1].rows[i]["content"]
                    /\ r.embedding = search_results[1].rows[i]["embedding"]
        /\ Len(search_results[1].rows) = Min(PipelineLimit, Cardinality(Matching))

\* after three runs of the ingestion script, the last of which recreated the
\* table, a call searched with one embedding request and one store search and
\* got the one record the table holds now
C17_Witness ==
    /\ pc = "Searched"
    /\ clock = 4
    /\ calls.embedding = 1 /\ calls.search = 1
    /\ Cardinality(Stored(store)) = 1
    /\ RowIds(search_results[1]) = {str_of_uuid(uuid_from_time(3))}

----------------------------------------------------------------------------
(* Properties of the record shapes *)

\* C18: the synthesizer projects the context it is handed before it calls the
\* model: dataframe_to_json yields one entry per context record, in the order
\* of the context, each entry holding the body text of its record and nothing
\* but the body text and kept fields, never the embedding, id or distance.
C18_ContextProjected ==
    search_results # None =>
        /\ dataframe_to_json(search_results[1], columns_to_keep).error = None
        /\ Len(dataframe_to_json(search_results[1], columns_to_keep).records)
              = Len(search_results[1].rows)
        /\ \A i \in 1..Len(search_results[1].rows) :
              /\ DOMAIN dataframe_to_json(search_results[1], columns_to_keep).records[i]
                    \subseteq {"content"} \cup columns_to_keep
              /\ dataframe_to_json(search_results[1], columns_to_keep).records[i]["content"]
                    = search_results[1].rows[i]["content"]

\* the metadata read back from row i of a DataFrame: the columns that are not
\* id, content, embedding or distance
RecoveredMetadata(df, i) == [k \in df.columns \ BaseColumns |-> df.rows[i][k]]

\* C19: metadata round trip: every row a search returns carries the metadata
\* of the stored record with its id field for field, the same keys with the
\* same values and no other key, also when the rows come from records with
\* different metadata keys.
C19_MetadataRoundTrip ==
    (admin.op = "search" /\ admin.error = None) =>
        \A i \in 1..Len(admin.out[1].rows) :
            \E r \in Stored(store) :
                /\ str_of_uuid(r.id) = admin.out[1].rows[i]["id"]
                /\ DOMAIN RecoveredMetadata(admin.out[1], i) = DOMAIN r.metadata
                /\ \A k \in DOMAIN r.metadata :
                      RecoveredMetadata(admin.out[1], i)[k] = r.metadata[k]

\* C20: no drift between contents and embedding: every record of the table
\* carries the embedding of the text stored as its contents, after any
\* sequence of upserts, deletes and index calls, also under an id whose
\* record was upserted again with other contents.
C20_EmbeddingOfContents ==
    \A r \in Stored(store) : r.embedding = get_embedding(r.contents)

\* an upsert has replaced the record of an id by one with other contents, and
\* the table holds the new contents with their own embedding, not the old one
C20_Witness ==
    /\ Upserted
    /\ admin.out[1] # None
    /\ store[RowOf(admin.args[1]).id] = Some(RowOf(admin.args[1]))
    /\ admin.out[1][1].contents # admin.args[1].contents
    /\ admin.out[1][1].embedding # admin.args[1].embedding
    /\ admin.args[1].embedding = get_embedding(admin.args[1].contents)

----------------------------------------------------------------------------
(* Properties of the preprocessing stage *)

\* the enumerated fields of a constraints object hold values of their
\* enumerations, or are absent
EnumerationsRespected(pre) ==
    /\ pre.sender = None \/ pre.sender[1] \in Senders
    /\ pre.addressed_to = None \/ pre.addressed_to[1] \in Recipients

\* C21: every constraints object the call holds, keeps in the slot or returns
\* has its sender and addressed_to in their enumerations or absent, and every
\* leaf of the predicate compares with a value of an enumeration; when the
\* schema refused the answer of the extraction service, the call has failed at
\* the preprocessing stage with an ExtractionError, without constraints, without
\* a predicate and without a result.
C21_EnumerationsEnforced ==
    /\ preprocessed # None => EnumerationsRespected(preprocessed[1])
    /\ last_preprocessed_query # None => EnumerationsRespected(last_preprocessed_query[1])
    /\ result # None => EnumerationsRespected(result[1].preprocessing)
    /\ predicates # None =>
          \A l \in Leaves(predicates[1]) : l.value \in Senders \cup Recipients
    /\ rejected # {} =>
          /\ pc = "Failed"
          /\ error = Raised("ExtractionError", "Preprocessed")
          /\ ~Completed("Preprocessed")
          /\ preprocessed = None
          /\ predicates = None
          /\ search_args = None
          /\ result = None

\* the service answered a question with a sender outside the enumeration and
\* the call failed, after an earlier call had filled the slot
C21_Witness ==
    /\ rejected = {"sender"}
    /\ pc = "Failed"
    /\ error = Raised("ExtractionError", "Preprocessed")
    /\ last_preprocessed_query # None

\* C22: two preprocess calls with the same question send the same extraction
\* request whenever they are executed: the callers supply nothing but the
\* question, so the requests of two calls of the processor with one question
\* are the same messages.
C22_RequestIndependentOfExecutionTime ==
    (/\ extraction_request # None
     /\ parked.extraction_request # None
     /\ user_question = parked.user_question)
        => extraction_request = parked.extraction_request

----------------------------------------------------------------------------
(* Properties of search after the maintenance operations *)

\* the distances of the rows of a DataFrame
Distances(df) == {df.rows[i]["distance"] : i \in 1..Len(df.rows)}

\* C23: after upsert of a record, every unfiltered search whose query text is
\* the contents of the record, whatever its limit, returns a row with the id of
\* the record, and no row of the result is nearer to the query than that row.
C23_UpsertedFoundByContents ==
    Upserted =>
        \A limit \in 1..MaxLimit :
            \A o \in VectorStore_search(store, admin.args[1].contents, limit, None, None) :
                o.error = None =>
                    \E i \in 1..Len(o.df[1].rows) :
                        /\ o.df[1].rows[i]["id"] = admin.args[1].id
                        /\ \A d \in Distances(o.df[1]) : o.df[1].rows[i]["distance"] <= d

----------------------------------------------------------------------------
(* Properties of the pipeline between search and synthesis *)

\* the fields dataframe_to_json reads from a context record
FieldsRead == {"metadata", "contents"}

\* C24: whenever the search stage returned one or more records, every field
\* the synthesizer reads from a context record is a column of the DataFrame
\* returned, and the call does not fail with a KeyError between Searched and
\* Synthesized.
C24_SearchShapeFeedsSynthesis ==
    (search_results # None /\ Len(search_results[1].rows) >= 1) =>
        /\ FieldsRead \subseteq search_results[1].columns
        /\ ~(pc = "Failed" /\ error = Raised("KeyError", "Synthesized"))

----------------------------------------------------------------------------
(* Properties of two calls on one QueryProcessor *)

\* the call with locals f works from its own preprocessing result
OwnConstraints(f) ==
    /\ (\E i \in 1..Len(f.stages) : f.stages[i] = "PredicateBuilt") =>
          f.predicates = _build_predicates(f.preprocessed[1])
    /\ f.search_args # None =>
          /\ f.time_range = TimeRangeOf(f.preprocessed[1])
          /\ f.search_args[1] = SearchArgs(PipelineLimit, f.predicates, f.time_range)
    /\ f.result # None => f.result[1].preprocessing = f.preprocessed[1]

\* C25: when two process_query calls on the same QueryProcessor interleave,
\* each call builds its predicate and its time range from its own
\* preprocessing result, searches with them and returns its own preprocessing,
\* whatever the slot last_preprocessed_query holds.
C25_CallsKeepTheirOwnConstraints == OwnConstraints(Frame) /\ OwnConstraints(parked)

\* a call has returned its own preprocessing while the slot holds the
\* different preprocessing of the other call, which is still in flight
C25_Witness ==
    /\ pc = "Done"
    /\ result[1].preprocessing = preprocessed[1]
    /\ search_args[1].predicates = _build_predicates(preprocessed[1])
    /\ parked.pc = "Preprocessed"
    /\ last_preprocessed_query = parked.preprocessed
    /\ parked.preprocessed # preprocessed
    /\ _build_predicates(parked.preprocessed[1]) # predicates

----------------------------------------------------------------------------
(* Properties of the time range handed to search *)

\* the call has entered vector_store.search
SearchEntered ==
    \/ pc \in {"Searched", "Synthesized", "Done"}
    \/ pc = "Failed" /\ error[1].stage \in {"Searched", "Synthesized", "Done"}

\* the time range the call passed is None exactly when the extracted
\* time_filter is absent, and is the pair (start_date, end_date) otherwise
PairPassed ==
    /\ time_range = None <=> preprocessed[1].time_filter = None
    /\ preprocessed[1].time_filter # None =>
          time_range = Some(<<preprocessed[1].time_filter[1].start_date,
                              preprocessed[1].time_filter[1].end_date>>)

\* C26 as stated: once search has the embedding of the question, the pair is
\* passed exactly when a time_filter is present, and for every time_filter
\* present, with or without bounds, search hands the store a time filter
\* built from the pair.
C26_TimeFilterAlwaysApplied ==
    (SearchEntered /\ error # Raised("EmbeddingError", "Searched")) =>
        /\ PairPassed
        /\ preprocessed[1].time_filter # None =>
              /\ search_args # None
              /\ search_args[1].uuid_time_filter =
                    Some(UUIDTimeRange(time_range[1][1], time_range[1][2]))

\* C26 as amended: process_query passes no time range exactly when the
\* time_filter is absent and the pair (start_date, end_date) otherwise, also
\* when bounds are absent; search then either hands the store the
\* UUIDTimeRange built from the pair, and every row returned lies in it, or
\* fails with the error of UUIDTimeRange for a pair without bounds or with
\* start after end, before the store is queried.  No search with a time_filter
\* present is unfiltered.
C26_TimeRangePassedOrRefused ==
    SearchEntered =>
        /\ PairPassed
        /\ search_args # None =>
              search_args[1].uuid_time_filter =
                  (IF time_range = None THEN None
                   ELSE Some(UUIDTimeRange(time_range[1][1], time_range[1][2])))
        /\ (search_args = None /\ error # Raised("EmbeddingError", "Searched")) =>
              /\ error = Raised("ValueError", "Searched")
              /\ time_range # None
              /\ RangeMayBeRefused(UUIDTimeRange(time_range[1][1], time_range[1][2]))
              /\ calls.search = 0
              /\ search_results = None
        /\ (search_results # None /\ time_range # None) =>
              \A i \in 1..Len(search_results[1].rows) :
                  InTimeRange(TimeOfId(uuid_of_str(search_results[1].rows[i]["id"])),
                              UUIDTimeRange(time_range[1][1], time_range[1][2]))

\* a time_filter without start_date was extracted, the pair was passed, the
\* filter went to the store and a record created before the end was returned
\* while a later record stayed out
C26_Witness ==
    /\ pc = "Searched"
    /\ preprocessed[1].time_filter = Some([start_date |-> None, end_date |-> Some(3)])
    /\ time_range = Some(<<None, Some(3)>>)
    /\ search_args[1].uuid_time_filter = Some(UUIDTimeRange(None, Some(3)))
    /\ search_args[1].predicates = None
    /\ Len(search_results[1].rows) >= 1
    /\ \E r \in Stored(store) : TimeOfId(r.id) >= 3

----------------------------------------------------------------------------
(* Properties of the slot when a call fails *)

\* C27: a process_query call that fails changes last_preprocessed_query only if
\* its preprocessing stage succeeded.  The slot changes only in the step that
\* completes the preprocessing; a call that fails in the preprocessing leaves
\* the slot as the previous call left it; a call that fails at a later stage
\* leaves its own preprocessing result in the slot and returns no result.
C27_SlotOnFailure ==
    [][/\ pc' # "Preprocessed" => last_preprocessed_query' = last_preprocessed_query
       /\ (pc' = "Failed" /\ error'[1].stage = "Preprocessed") =>
             /\ last_preprocessed_query' = last_preprocessed_query
             /\ preprocessed' = None
             /\ result' = None
       /\ (pc' = "Failed" /\ error'[1].stage # "Preprocessed") =>
             /\ preprocessed' # None
             /\ last_preprocessed_query' = preprocessed'
             /\ result' = None]_vars

\* a call about one question failed in the preprocessing while the slot holds
\* the preprocessing of an earlier call about the other question
C27_Witness ==
    /\ pc = "Failed"
    /\ error = Raised("ExtractionError", "Preprocessed")
    /\ preprocessed = None
    /\ last_preprocessed_query # None
    /\ last_preprocessed_query[1].question # user_question[1]

----------------------------------------------------------------------------
(* Properties of the guard of VectorStore.delete *)

\* the deletion modes whose argument is non-empty or true
ModesGiven(args) ==
    {m \in {"ids"} : args.ids # None /\ Len(args.ids[1]) > 0}
        \cup {m \in {"metadata_filter"} :
                 args.metadata_filter # None /\ args.metadata_filter[1] # {}}
        \cup {m \in {"delete_all"} : args.delete_all}

====
